---- MODULE Spec2Model ----
(***************************************************************************)
(* Model of the minimal-executor crate: the bounded-queue ("busy")         *)
(* LocalPool of src/src/local_pool_busy.rs with its Spawner, driven by the *)
(* no-op waker of src/src/waker.rs through poll_fn of src/src/lib.rs.      *)
(*                                                                         *)
(* The owner thread is modelled at the granularity of its accesses to the  *)
(* shared ArrayQueue (len, pop, push): one action per access, with the     *)
(* thread-local computation that follows it.  A task is identified by the  *)
(* order of its admission; its result (the generic Ret) is its identity.   *)
(***************************************************************************)
EXTENDS Integers, Sequences, FiniteSets, TLC

\* Bounds of the model.
MaxCap == 3        \* largest capacity passed to LocalPool::new
MaxTasks == 3      \* tasks admitted in one behaviour
MaxNeed == 2       \* polls a completing task needs at most
MaxIter == 2       \* largest ITER of the test try_run_one_executes_one_ready
ConcCap == 2       \* largest capacity when spawner threads run concurrently
ConcTasks == 2     \* tasks admitted in one behaviour with concurrent spawners, capacity <= ConcCap
MaxScript == 3     \* invocations after which an `op` given to poll_fn/block_fn repeats itself
MaxVal == 2        \* distinct values an `op` may complete with
MaxClones == 2     \* clones of one notification handle alive at a time
MaxWakes == 2      \* wakes of one batch that are told apart

Spawners == {"s1", "s2"}    \* threads that may hold a Spawner handle
TaskIds == 1..(3 * MaxIter + MaxTasks + ConcTasks)

VARIABLES
    concurrent, \* the host lets spawner threads run while the owner is in a call
    ITER,       \* the test's ITER when the host is try_run_one_executes_one_ready, else 0
    ti,         \* that test's loop variable `i`: try_run_one calls it has completed
    variant,    \* which pool was built: "busy" (local_pool_busy.rs) or "old" (local_pool.rs)
    fuAll,      \* old pool: the futures its FuturesUnordered holds, in push order
    fuReady,    \* old pool: those of them queued to be polled (pushed, not polled yet)
    oldOut,     \* old pool: the bool returned by the last try_run_one
    cap,        \* capacity of the ArrayQueue, fixed by new(cap)
    alive,      \* the LocalPool (the owner's Arc) has not been dropped
    queue,      \* contents of the ArrayQueue, front first
    task,       \* task[t]: kind ("none" | "Lazy" | "Pending") and polls left
    nspawned,   \* number of tasks admitted so far
    op,         \* the owner's current (or last) public call
    pc,         \* the owner's position
    len,        \* poll_though: `len`
    i,          \* poll_though: loop counter of `for _ in 0..len`
    future,     \* the popped task the owner holds (0: none)
    results,    \* run: `results`
    ret,        \* value returned by the last poll_once / poll_though
    out,        \* value returned by the last try_run_one
    spc,        \* spc[s]: position of spawner thread s
    sarg,       \* sarg[s]: the future handed to the spawn in progress
    sret,       \* sret[s]: what the last Spawner::spawn of s returned
    q0,         \* history: queue when the current poll_once/poll_though first read it
    polled,     \* history: tasks polled by the current poll_once/poll_though
    runq0,      \* history: queue when the current public call began
    completed,  \* history: tasks that reported completion in this call, in order
    slen,       \* history: slen[s]: queue length the push of spawner s found
    late,       \* history: the spawners whose spawn began after the pool was dropped
    stask,      \* history: stask[s]: the task the spawn of s in progress has pushed (0: none)
    spool,      \* history: spool[s]: the pool existed when that task was pushed
    repolled,   \* history: a task was polled after it reported completion
    again,      \* history: the owner's previous call was a run() of an empty pool
    fnName,     \* lib.rs: the function in progress ("poll_fn" | "block_fn"), else "none"
    fnOp,       \* lib.rs: its argument `f`: what the successive invocations report
    fnCalls,    \* lib.rs: invocations of `f` made by the call so far
    fnPc,       \* lib.rs: position of the call
    fnRet,      \* lib.rs: what the call returned
    wkind,      \* waker.rs: type of the value given to waker_ref ("none": not called yet)
    woken,      \* waker.rs: SingleWake.woken of that value
    wfreed,     \* waker.rs: what handle operations have deallocated
    handles,    \* waker.rs: handles[h]: data pointer and vtable of handle h (0: the WakerRef)
    wop,        \* history: the last operation on the value or a handle, and the handle
    wbatch,     \* history: wake() calls on the value since the last read_reset
    rret,       \* what the last read_reset returned
    rbatch,     \* history: wbatch when the last read_reset began
    rrq,        \* history: the queue as it was at a moment between two calls (<<>>: none noted)
    rrlog       \* history: the tasks the poll_once calls since that moment have polled

vars == <<concurrent, ITER, ti, variant, fuAll, fuReady, oldOut, cap, alive, queue, task, nspawned, op, pc, len, i, future, results,
          ret, out, spc, sarg, sret, q0, polled, runq0, completed, slen, late, stask, spool, repolled, again,
          fnName, fnOp, fnCalls, fnPc, fnRet,
          wkind, woken, wfreed, handles, wop, wbatch, rret, rbatch, rrq, rrlog>>

\* State of lib.rs's free functions.
libVars == <<fnName, fnOp, fnCalls, fnPc, fnRet>>
\* What no operation of a pool touches: the host program's configuration and
\* the state of the code outside the pools.
\* State of waker.rs: one decorated value and the handles that point to it.
wakerVars == <<wkind, woken, wfreed, handles, wop, wbatch, rret, rbatch>>
\* The observation of the queue's order; only poll_once's pop adds to it.
rrVars == <<rrq, rrlog>>
setupVars == <<concurrent, ITER, variant, libVars, wakerVars, rrVars>>
oldVars == <<fuAll, fuReady, oldOut>>
ownerVars == <<op, pc, len, i, future, results, ret, out, q0, polled, runq0, completed, again>>
spawnerVars == <<spc, sarg, sret, slen, late, stask, spool>>

----------------------------------------------------------------------------
\* Poll<Option<Ret>> and Poll<Ret> values.
PollPending == [k |-> "Pending", v |-> 0]
ReadyNone == [k |-> "ReadyNone", v |-> 0]
ReadySome(r) == [k |-> "ReadySome", v |-> r]
PollReady(r) == [k |-> "Ready", v |-> r]
NoValue == [k |-> "none", v |-> 0]

\* The futures a caller hands to spawn: `lazy`-like tasks that complete on
\* their n-th poll, and the test's `Pending`, which never completes.
\* `need` is the number of polls the task takes to complete, `left` how many
\* of them are still to come.
NoTask == [kind |-> "none", need |-> 0, left |-> 0]
LazyFuture(n) == [kind |-> "Lazy", need |-> n, left |-> n]
PendingFuture == [kind |-> "Pending", need |-> 0, left |-> 0]
Futures == {LazyFuture(n) : n \in 1..MaxNeed} \cup {PendingFuture}
\* The futures of the tests: `lazy`, complete on its first poll, and `Pending`.
TestFutures == {LazyFuture(1), PendingFuture}

\* Future::poll of a spawned future f: what it reports, and f afterwards.
Outcome(f) ==
    IF f.kind = "Pending" THEN "Pending"
    ELSE IF f.left > 1 THEN "Pending" ELSE "Ready"

Polled(f) ==
    IF f.kind = "Lazy" /\ f.left > 0 THEN [f EXCEPT !.left = @ - 1] ELSE f

\* future.poll_unpin(cx): the outcome of polling task t once.
PollOutcome(t) == Outcome(task[t])

\* The task's own state after that poll.
PollEffect(t) == [task EXCEPT ![t] = Polled(task[t])]

\* Arc strong count of the shared queue: the pool's own reference plus the
\* references spawners hold between upgrade() and the end of spawn.
Upgraded == {s \in Spawners : spc[s] \in {"push", "release"}}
StrongCount == (IF alive THEN 1 ELSE 0) + Cardinality(Upgraded)

\* Mutant: the bound is checked one element late.
IsFullLate == Len(queue) > cap

\* ArrayQueue::push succeeds iff the queue holds fewer than cap elements.
IsFull == Len(queue) >= cap

----------------------------------------------------------------------------
\* A pool just built: no task, no handle, no call made.
Fresh ==
    /\ alive = TRUE
    /\ queue = <<>>
    /\ task = [t \in TaskIds |-> NoTask]
    /\ nspawned = 0
    /\ op = "none"
    /\ pc = "idle"
    /\ len = 0
    /\ i = 0
    /\ future = 0
    /\ results = <<>>
    /\ ret = NoValue
    /\ out = NoValue
    /\ spc = [s \in Spawners |-> "none"]
    /\ sarg = [s \in Spawners |-> NoTask]
    /\ sret = [s \in Spawners |-> "none"]
    /\ q0 = <<>>
    /\ polled = <<>>
    /\ runq0 = <<>>
    /\ completed = <<>>
    /\ slen = [s \in Spawners |-> 0]
    /\ late = {}
    /\ stask = [s \in Spawners |-> 0]
    /\ spool = [s \in Spawners |-> FALSE]
    /\ repolled = FALSE
    /\ fuAll = <<>>
    /\ fuReady = <<>>
    /\ oldOut = FALSE
    /\ again = FALSE
    /\ fnName = "none"
    /\ fnOp = <<>>
    /\ fnCalls = 0
    /\ fnPc = "idle"
    /\ fnRet = NoValue
    /\ wkind = "none"
    /\ woken = FALSE
    /\ wfreed = {}
    /\ handles = [h \in 0..MaxClones |-> [data |-> "null", vtable |-> "none"]]
    /\ wop = [name |-> "none", h |-> 0]
    /\ wbatch = 0
    /\ rret = FALSE
    /\ rbatch = 0
    /\ rrq = <<>>
    /\ rrlog = <<>>

\* BusyLocalPool::new(cap): an empty pool; ArrayQueue::new requires cap >= 1.
new == Fresh /\ variant = "busy" /\ cap \in 1..MaxCap

\* LocalPool::new() of local_pool.rs: an empty FuturesUnordered, no capacity.
old_new == Fresh /\ variant = "old" /\ cap = 0

\* Single-threaded use: every call runs to its end before the next begins.
Init == (new \/ old_new) /\ concurrent = FALSE /\ ITER = 0 /\ ti = 0

\* The "Queue full" panic is fatal: the program goes no further.
Running == pc # "panicked" /\ \A s \in Spawners : spc[s] # "panicked"

\* What each thread may do under the host's threading discipline.
InSpawn == {"push", "release", "returned"}
SpawnersQuiet == \A s \in Spawners : spc[s] \notin InSpawn
OwnerQuiet == pc \in {"idle", "dropped"}
OwnerMayStep == Running /\ (concurrent \/ SpawnersQuiet)
SpawnerMayStep(s) ==
    /\ Running
    /\ concurrent \/ (OwnerQuiet /\ \A o \in Spawners \ {s} : spc[o] \notin InSpawn)

\* Task identities are handed out at admission; those reserved by spawns in flight count.
InFlight == Cardinality({s \in Spawners : spc[s] = "push"})
TaskLimit ==
    IF ITER > 0 THEN 3 * ITER
    ELSE IF concurrent /\ cap <= ConcCap THEN ConcTasks
    ELSE MaxTasks
MayAdmit == nspawned + InFlight < TaskLimit

----------------------------------------------------------------------------
\* Owner thread: admission and handles.

\* Mutant: the push reports success but stores nothing.
PushLost(q, t) == q

\* Mutant: the task is put at the front instead of the tail.
PushFront(q, t) == <<t>> \o q

\* ArrayQueue::push(t) on a queue with room.
Push(q, t) == Append(q, t)

\* Dropping the last Arc frees the ArrayQueue with the tasks still in it.
QueueAfterRelease(q, strongAfter) == IF strongAfter = 0 THEN <<>> ELSE q

\* LocalPool::spawn(f): push or the fatal "Queue full".
spawn(f) ==
    /\ variant = "busy" /\ pc = "idle" /\ alive /\ OwnerMayStep
    /\ IsFull \/ MayAdmit
    /\ op' = "spawn"
    /\ q0' = queue
    /\ IF IsFull
       THEN /\ pc' = "panicked"
            /\ UNCHANGED <<queue, task, nspawned>>
       ELSE /\ queue' = Push(queue, nspawned + 1)
            /\ task' = [task EXCEPT ![nspawned + 1] = f]
            /\ nspawned' = nspawned + 1
            /\ pc' = "returned"
    /\ UNCHANGED <<again, setupVars, ti, oldVars, cap, alive, len, i, future, results, ret, out,
                   polled, runq0, completed, repolled>>
    /\ UNCHANGED spawnerVars

\* The thread that receives the handle LocalPool::spawner() returns; the
\* other threads get theirs by Spawner::clone.
FirstSpawner == CHOOSE s \in Spawners : TRUE

\* LocalPool::spawner(): a Weak handle given to thread s.
spawner(s) ==
    /\ s = FirstSpawner
    /\ variant = "busy" /\ pc = "idle" /\ alive /\ OwnerMayStep
    /\ spc[s] = "none"
    /\ spc' = [spc EXCEPT ![s] = "idle"]
    /\ UNCHANGED <<setupVars, ti, oldVars, cap, alive, queue, task, nspawned, sarg, sret,
                   slen, late, stask, spool, repolled>>
    /\ UNCHANGED ownerVars

\* #[derive(Clone)] on Spawner: thread s2 receives a clone of s's handle.
SpawnerClone(s, s2) ==
    /\ spc[s] = "idle" /\ spc[s2] = "none"
    /\ SpawnerMayStep(s)
    /\ spc' = [spc EXCEPT ![s2] = "idle"]
    /\ UNCHANGED <<setupVars, ti, oldVars, cap, alive, queue, task, nspawned, sarg, sret,
                   slen, late, stask, spool, repolled>>
    /\ UNCHANGED ownerVars

\* The owner drops the LocalPool: its Arc is released.
DropPool ==
    /\ variant = "busy" /\ pc = "idle" /\ alive /\ OwnerMayStep
    /\ alive' = FALSE
    /\ op' = "drop"
    /\ pc' = "dropped"
    /\ q0' = queue
    /\ queue' = QueueAfterRelease(queue, StrongCount - 1)
    /\ UNCHANGED <<again, setupVars, ti, oldVars, cap, task, nspawned, len, i, future, results,
                   ret, out, polled, runq0, completed, repolled>>
    /\ UNCHANGED spawnerVars

----------------------------------------------------------------------------
\* Owner thread: the polling side.

\* Entry of a public call: its locals, and the history of what it starts from.
Call(o, entry) ==
    /\ variant = "busy" /\ pc = "idle" /\ alive /\ OwnerMayStep
    /\ op' = o
    /\ pc' = entry
    /\ q0' = queue
    /\ runq0' = queue
    /\ UNCHANGED <<again, setupVars, ti, oldVars, cap, alive, queue, task, nspawned, len, i, future,
                   results, ret, out, polled, completed, repolled>>
    /\ UNCHANGED spawnerVars

\* The caller takes what the call returned and goes on; the call's frame and
\* the history kept for it are gone.
resume ==
    /\ pc = "returned" /\ OwnerMayStep
    /\ pc' = "idle"
    /\ op' = "none"
    /\ len' = 0 /\ i' = 0
    /\ results' = <<>>
    /\ ret' = NoValue /\ out' = NoValue
    /\ q0' = <<>> /\ polled' = <<>> /\ runq0' = <<>> /\ completed' = <<>>
    /\ oldOut' = FALSE
    /\ again' = (op = "run" /\ runq0 = <<>>)
    /\ ti' = IF ITER > 0 /\ op = "try_run_one" THEN ti + 1 ELSE ti
    /\ UNCHANGED <<setupVars, fuAll, fuReady, cap, alive, queue, task, nspawned, future, repolled>>
    /\ UNCHANGED spawnerVars

run == Call("run", "po_pop")
try_run_one == Call("try_run_one", "pt_len")
poll_though == Call("poll_though", "pt_len")
poll_once == Call("poll_once", "po_pop")

\* Where poll_once and poll_though return to.
AfterPollOnce == IF op = "run" THEN "run_match" ELSE "returned"
AfterPollThough == IF op = "try_run_one" THEN "tro_match" ELSE "returned"

\* `if let Some(mut future) = self.pool.pop()` followed by
\* `future.poll_unpin(cx)`: the front task t leaves the queue and is polled
\* once.  Ready: the caller returns Ready(Some(ret)) and the future is
\* dropped.  Pending: the owner holds it for the re-push.
PopAndPoll(t, readyPc, pendingPc) ==
    /\ queue' = Tail(queue)
    /\ polled' = Append(polled, t)
    /\ task' = PollEffect(t)
    /\ repolled' = (repolled \/ (task[t].kind = "Lazy" /\ task[t].left = 0))
    /\ IF PollOutcome(t) = "Ready"
       THEN /\ ret' = ReadySome(t)
            /\ completed' = Append(completed, t)
            /\ future' = 0
            /\ pc' = readyPc
       ELSE /\ future' = t
            /\ pc' = pendingPc
            /\ UNCHANGED <<ret, completed>>

\* Mutant: an empty queue is reported like a suspended task.
PollOnceEmptyPending == PollPending

\* poll_once: what the `else` of `if let Some(..) = self.pool.pop()` reports.
PollOnceEmpty == ReadyNone

\* poll_once: the pop, the poll and the two returns that need no push.
poll_once_pop ==
    /\ pc = "po_pop" /\ OwnerMayStep
    /\ IF queue = <<>>
       THEN /\ ret' = PollOnceEmpty
            /\ pc' = AfterPollOnce
            /\ UNCHANGED <<queue, task, future, polled, completed, repolled>>
       ELSE PopAndPoll(Head(queue), AfterPollOnce, "po_push")
    /\ rrlog' = IF queue # <<>> /\ Len(rrlog) < Len(rrq) THEN Append(rrlog, Head(queue)) ELSE rrlog
    /\ UNCHANGED <<again, concurrent, ITER, variant, libVars, wakerVars, rrq, ti, oldVars, cap, alive,
                   nspawned, op, len, i, results, out, q0, runq0>>
    /\ UNCHANGED spawnerVars

\* poll_once: `self.pool.push(future).expect("Queue full"); Poll::Pending`.
poll_once_push ==
    /\ pc = "po_push" /\ OwnerMayStep
    /\ future' = 0
    /\ IF IsFull
       THEN /\ pc' = "panicked"
            /\ UNCHANGED <<queue, ret>>
       ELSE /\ queue' = Push(queue, future)
            /\ ret' = PollPending
            /\ pc' = AfterPollOnce
    /\ UNCHANGED <<again, setupVars, ti, oldVars, cap, alive, task, nspawned, op, len, i, results, out,
                   q0, polled, runq0, completed, repolled>>
    /\ UNCHANGED spawnerVars

\* Mutant: `results` is rebuilt on every completion instead of extended.
RunCollectOverwrite(rs, r) == <<r>>

\* Mutant: the result is inserted at the front of `results`.
RunCollectFront(rs, r) == <<r>> \o rs

\* run: `results.push(r)` on Ready(Some(r)).
RunCollect(rs, r) == Append(rs, r)

\* Mutant: a suspended task ends the loop like an empty queue.
RunDoneOnPending(r) == r.k # "ReadySome"

\* run: `Poll::Ready(None) => break`.
RunDone(r) == r.k = "ReadyNone"

\* run: the match on what poll_once returned; Ready(None) ends the loop and
\* run returns `results`, anything else calls poll_once again.
run_match ==
    /\ pc = "run_match" /\ OwnerMayStep
    /\ IF RunDone(ret)
       THEN /\ pc' = "returned"
            /\ UNCHANGED <<results, q0, polled>>
       ELSE /\ pc' = "po_pop"
            /\ results' = IF ret.k = "ReadySome" THEN RunCollect(results, ret.v) ELSE results
            /\ q0' = queue
            /\ polled' = <<>>
    /\ UNCHANGED <<again, setupVars, ti, oldVars, cap, alive, queue, task, nspawned, op, len, i, future,
                   ret, out, runq0, completed, repolled>>
    /\ UNCHANGED spawnerVars

\* Mutant: without the early return the empty sweep falls through to Pending.
PollThoughEmptyPending == PollPending

\* poll_though: what the early return on `len == 0` reports.
PollThoughEmpty == ReadyNone

\* poll_though: `let len = self.pool.len(); if len == 0 { return Ready(None) }`.
poll_though_len ==
    /\ pc = "pt_len" /\ OwnerMayStep
    /\ len' = Len(queue)
    /\ q0' = queue
    /\ i' = 0
    /\ IF Len(queue) = 0
       THEN /\ ret' = PollThoughEmpty
            /\ pc' = AfterPollThough
       ELSE /\ pc' = "pt_pop"
            /\ UNCHANGED ret
    /\ UNCHANGED <<again, setupVars, ti, oldVars, cap, alive, queue, task, nspawned, op, future, results,
                   out, polled, runq0, completed, repolled>>
    /\ UNCHANGED spawnerVars

\* Mutant: the sweep gives up after its first poll.
SweepOverEarly(n) == n >= 1

\* Mutant: the loop goes through the queue twice.
SweepOverTwice(n) == n >= 2 * len

\* Mutant: the loop runs `0..=len`, one iteration too many.
SweepOverLate(n) == n > len

\* poll_though: the loop `for _ in 0..len` is over after iteration len - 1,
\* and the closure then returns Poll::Pending.
SweepOver(n) == n >= len

\* poll_though: one iteration's pop and poll.  A pop that finds nothing
\* (possible only if the queue shrank under the sweep) skips the iteration.
poll_though_pop ==
    /\ pc = "pt_pop" /\ OwnerMayStep
    /\ IF queue = <<>>
       THEN /\ i' = i + 1
            /\ IF SweepOver(i + 1)
               THEN ret' = PollPending /\ pc' = AfterPollThough
               ELSE UNCHANGED <<ret, pc>>
            /\ UNCHANGED <<queue, task, future, polled, completed, repolled>>
       ELSE /\ PopAndPoll(Head(queue), AfterPollThough, "pt_push")
            /\ UNCHANGED i
    /\ UNCHANGED <<again, setupVars, ti, oldVars, cap, alive, nspawned, op, len, results, out,
                   q0, runq0>>
    /\ UNCHANGED spawnerVars

\* poll_though: `self.pool.push(future).expect("Queue full")`, then the next
\* iteration or the end of the sweep.
poll_though_push ==
    /\ pc = "pt_push" /\ OwnerMayStep
    /\ future' = 0
    /\ IF IsFull
       THEN /\ pc' = "panicked"
            /\ UNCHANGED <<queue, ret, i>>
       ELSE /\ queue' = Push(queue, future)
            /\ i' = i + 1
            /\ IF SweepOver(i + 1)
               THEN ret' = PollPending /\ pc' = AfterPollThough
               ELSE pc' = "pt_pop" /\ UNCHANGED ret
    /\ UNCHANGED <<again, setupVars, ti, oldVars, cap, alive, task, nspawned, op, len, results, out,
                   q0, polled, runq0, completed, repolled>>
    /\ UNCHANGED spawnerVars

\* Mutant: only Pending is not-ready, so the empty marker comes out as Ready.
TryRunOneMapEmptyReady(r) == IF r.k = "Pending" THEN PollPending ELSE PollReady(r.v)

\* try_run_one: the match on what poll_though returned.
TryRunOneMap(r) == IF r.k = "ReadySome" THEN PollReady(r.v) ELSE PollPending

try_run_one_match ==
    /\ pc = "tro_match" /\ OwnerMayStep
    /\ out' = TryRunOneMap(ret)
    /\ pc' = "returned"
    /\ UNCHANGED <<again, setupVars, ti, oldVars, cap, alive, queue, task, nspawned, op, len, i, future,
                   results, ret, q0, polled, runq0, completed, repolled>>
    /\ UNCHANGED spawnerVars

----------------------------------------------------------------------------
\* Spawner threads: Spawner::spawn / Spawn::spawn_obj.

\* Mutant: the handle is used without checking that the pool still exists.
UpgradeUnchecked == TRUE

\* Weak::upgrade gives an Arc iff some strong reference is left.
UpgradeSucceeds == StrongCount > 0

\* `self.tx.upgrade().ok_or(SpawnError::shutdown())?`
spawn_upgrade(s, f) ==
    /\ spc[s] = "idle" /\ SpawnerMayStep(s)
    /\ IF UpgradeSucceeds
       THEN /\ IsFull \/ MayAdmit
            /\ spc' = [spc EXCEPT ![s] = "push"]
            /\ sarg' = [sarg EXCEPT ![s] = f]
            /\ sret' = [sret EXCEPT ![s] = "none"]
       ELSE /\ sret' = [sret EXCEPT ![s] = "Shutdown"]
            /\ spc' = [spc EXCEPT ![s] = "returned"]
            /\ UNCHANGED sarg
    /\ late' = IF alive THEN late ELSE late \cup {s}
    /\ UNCHANGED <<setupVars, ti, oldVars, cap, alive, queue, task, nspawned, slen, stask, spool, repolled>>
    /\ UNCHANGED ownerVars

\* `tx.push(LocalFutureObj::new(f)).expect("Queue full")`: a panic unwinds
\* and releases the upgraded Arc.
spawn_push(s) ==
    /\ spc[s] = "push" /\ SpawnerMayStep(s)
    /\ IsFull \/ nspawned < TaskLimit
    /\ sarg' = [sarg EXCEPT ![s] = NoTask]
    /\ slen' = [slen EXCEPT ![s] = Len(queue)]
    /\ IF IsFull
       THEN /\ spc' = [spc EXCEPT ![s] = "panicked"]
            /\ sret' = [sret EXCEPT ![s] = "Queue full"]
            /\ queue' = QueueAfterRelease(queue, StrongCount - 1)
            /\ UNCHANGED <<task, nspawned, stask, spool>>
       ELSE /\ spc' = [spc EXCEPT ![s] = "release"]
            /\ stask' = [stask EXCEPT ![s] = nspawned + 1]
            /\ spool' = [spool EXCEPT ![s] = alive]
            /\ queue' = Push(queue, nspawned + 1)
            /\ task' = [task EXCEPT ![nspawned + 1] = sarg[s]]
            /\ nspawned' = nspawned + 1
            /\ UNCHANGED sret
    /\ UNCHANGED <<setupVars, ti, oldVars, cap, alive, late, repolled>>
    /\ UNCHANGED ownerVars

\* `Ok(())`: `tx` goes out of scope, the upgraded Arc is released.
spawn_return(s) ==
    /\ spc[s] = "release" /\ SpawnerMayStep(s)
    /\ spc' = [spc EXCEPT ![s] = "returned"]
    /\ sret' = [sret EXCEPT ![s] = "Ok"]
    /\ slen' = [slen EXCEPT ![s] = 0]
    /\ queue' = QueueAfterRelease(queue, StrongCount - 1)
    /\ UNCHANGED <<setupVars, ti, oldVars, cap, alive, task, nspawned, sarg, late, stask, spool, repolled>>
    /\ UNCHANGED ownerVars

\* The spawning thread takes the Result and goes on.
spawn_resume(s) ==
    /\ spc[s] = "returned" /\ SpawnerMayStep(s)
    /\ spc' = [spc EXCEPT ![s] = "idle"]
    /\ sret' = [sret EXCEPT ![s] = "none"]
    /\ late' = late \ {s}
    /\ stask' = [stask EXCEPT ![s] = 0]
    /\ spool' = [spool EXCEPT ![s] = FALSE]
    /\ UNCHANGED <<setupVars, ti, oldVars, cap, alive, queue, task, nspawned, sarg, slen, repolled>>
    /\ UNCHANGED ownerVars

----------------------------------------------------------------------------
\* The old pool of local_pool.rs: a FuturesUnordered polled with the no-op
\* waker.  It is used from its owner thread only (there is no Spawner), so
\* each call is one action.  Its futures are the tests' `lazy` and `Pending`,
\* neither of which ever wakes its waker.
OldFutures == TestFutures

Without(sq, t) == SelectSeq(sq, LAMBDA x : x # t)

\* self.pool.poll_next_unpin(cx): FuturesUnordered polls the futures queued
\* to run, oldest first.  One that reports Pending leaves that queue and is
\* queued again only when woken, which the no-op waker never does; the first
\* one that reports Ready is released and yields Ready(Some).  When nothing is
\* queued any more the stream yields Ready(None) if it holds no future at all,
\* and Pending otherwise.
RECURSIVE FuPollNext(_, _, _, _)
FuPollNext(rq, all, tk, pl) ==
    IF rq = <<>>
    THEN [ret |-> IF all = <<>> THEN ReadyNone ELSE PollPending,
          rq |-> rq, all |-> all, task |-> tk, polled |-> pl]
    ELSE LET t == Head(rq)
             tk2 == [tk EXCEPT ![t] = Polled(tk[t])]
         IN IF Outcome(tk[t]) = "Ready"
            THEN [ret |-> ReadySome(t), rq |-> Tail(rq), all |-> Without(all, t),
                  task |-> tk2, polled |-> Append(pl, t)]
            ELSE FuPollNext(Tail(rq), all, tk2, Append(pl, t))

\* poll_pool: poll_next_unpin until it yields Pending or Ready(None).
RECURSIVE PollPool(_, _, _, _, _)
PollPool(rq, all, tk, pl, cl) ==
    LET r == FuPollNext(rq, all, tk, pl)
    IN IF r.ret.k = "ReadySome"
       THEN PollPool(r.rq, r.all, r.task, r.polled, Append(cl, r.ret.v))
       ELSE [ret |-> r.ret, rq |-> r.rq, all |-> r.all, task |-> r.task,
             polled |-> r.polled, completed |-> cl]

\* try_run_one of the old pool: the match on what poll_next_unpin yielded.
OldTryRunOneMap(r) == r.k = "ReadySome"

\* What every call of the old pool leaves alone.
OldCallFrame(o) ==
    /\ variant = "old" /\ pc = "idle" /\ alive
    /\ op' = o
    /\ q0' = fuReady
    /\ runq0' = fuAll
    /\ UNCHANGED <<again, setupVars, ti, cap, alive, queue, nspawned, len, i, future, results, repolled>>
    /\ UNCHANGED spawnerVars

\* LocalPool::spawn of the old pool: FuturesUnordered::push.
old_spawn(f) ==
    /\ variant = "old" /\ pc = "idle" /\ alive
    /\ MayAdmit
    /\ op' = "spawn"
    /\ pc' = "returned"
    /\ q0' = fuReady
    /\ runq0' = fuAll
    /\ fuAll' = Append(fuAll, nspawned + 1)
    /\ fuReady' = Append(fuReady, nspawned + 1)
    /\ task' = [task EXCEPT ![nspawned + 1] = f]
    /\ nspawned' = nspawned + 1
    /\ UNCHANGED <<again, setupVars, ti, oldOut, cap, alive, queue, len, i, future, results, ret, out,
                   polled, completed, repolled>>
    /\ UNCHANGED spawnerVars

old_try_run_one ==
    /\ OldCallFrame("try_run_one")
    /\ LET r == FuPollNext(fuReady, fuAll, task, <<>>) IN
       /\ fuReady' = r.rq /\ fuAll' = r.all /\ task' = r.task
       /\ polled' = r.polled
       /\ completed' = IF r.ret.k = "ReadySome" THEN <<r.ret.v>> ELSE <<>>
       /\ ret' = r.ret
       /\ oldOut' = OldTryRunOneMap(r.ret)
    /\ pc' = "returned"
    /\ UNCHANGED out

\* LocalPool::poll_once of the old pool: one poll_next_unpin, result dropped.
old_poll_once ==
    /\ OldCallFrame("poll_once")
    /\ LET r == FuPollNext(fuReady, fuAll, task, <<>>) IN
       /\ fuReady' = r.rq /\ fuAll' = r.all /\ task' = r.task
       /\ polled' = r.polled
       /\ completed' = IF r.ret.k = "ReadySome" THEN <<r.ret.v>> ELSE <<>>
       /\ ret' = r.ret
    /\ pc' = "returned"
    /\ UNCHANGED <<out, oldOut>>

\* LocalPool::run_until_stalled of the old pool: one poll_pool.
old_run_until_stalled ==
    /\ OldCallFrame("run_until_stalled")
    /\ LET r == PollPool(fuReady, fuAll, task, <<>>, <<>>) IN
       /\ fuReady' = r.rq /\ fuAll' = r.all /\ task' = r.task
       /\ polled' = r.polled
       /\ completed' = r.completed
       /\ ret' = r.ret
    /\ pc' = "returned"
    /\ UNCHANGED <<out, oldOut>>

\* LocalPool::run of the old pool: run_executor calls poll_pool until it is
\* Ready.  A poll_pool that reports Pending leaves nothing queued to run, so
\* every further turn of the loop reports Pending again: run spins for ever.
old_run ==
    /\ OldCallFrame("run")
    /\ LET r == PollPool(fuReady, fuAll, task, <<>>, <<>>) IN
       /\ fuReady' = r.rq /\ fuAll' = r.all /\ task' = r.task
       /\ polled' = r.polled
       /\ completed' = r.completed
       /\ ret' = r.ret
       /\ pc' = IF r.ret.k = "ReadyNone" THEN "returned" ELSE "spinning"
    /\ UNCHANGED <<out, oldOut>>

----------------------------------------------------------------------------
\* lib.rs: poll_fn and block_fn.  The argument `f` is any FnMut closure: it
\* is given by what its successive invocations report, the last entry being
\* what every further invocation reports.  The Context handed to it wraps
\* AlwaysWake, whose wake() does nothing, so waking it changes no state.
PollValues == {PollPending} \cup {PollReady(v) : v \in 1..MaxVal}
Ops == UNION {[1..n -> PollValues] : n \in 1..MaxScript}
OpResult(o, n) == o[IF n <= Len(o) THEN n ELSE Len(o)]
MaxCalls == MaxScript + 1
Value(t) == [k |-> "Value", v |-> t]

\* What the pool state does while a lib.rs function runs: nothing.
PoolUntouched ==
    /\ UNCHANGED <<concurrent, ITER, variant, rrVars, ti, oldVars, cap, alive, queue, task, nspawned, repolled>>
    /\ UNCHANGED ownerVars
    /\ UNCHANGED spawnerVars

\* poll_fn(f): `f(&mut cx)`, once, and its value is returned as it is.
poll_fn(o) ==
    /\ variant = "lib" /\ fnPc = "idle"
    /\ fnName' = "poll_fn"
    /\ fnOp' = o
    /\ fnCalls' = 1
    /\ fnRet' = OpResult(o, 1)
    /\ fnPc' = "returned"
    /\ PoolUntouched /\ UNCHANGED wakerVars

\* block_fn(f): entry, before the first turn of `loop`.
block_fn(o) ==
    /\ variant = "lib" /\ fnPc = "idle"
    /\ fnName' = "block_fn"
    /\ fnOp' = o
    /\ fnCalls' = 0
    /\ fnRet' = NoValue
    /\ fnPc' = "loop"
    /\ PoolUntouched /\ UNCHANGED wakerVars

\* Mutant: the loop is left whatever `f` reported.
BlockFnDoneAlways(r) == TRUE

\* block_fn: `if let Poll::Ready(t) = f(&mut cx)`.
BlockFnDone(r) == r.k = "Ready"

\* block_fn: one turn of `loop`: invoke `f`, return t on Poll::Ready(t).
block_fn_loop ==
    /\ fnPc = "loop"
    /\ LET r == OpResult(fnOp, fnCalls + 1) IN
       /\ fnCalls' = IF fnCalls < MaxCalls THEN fnCalls + 1 ELSE fnCalls
       /\ IF BlockFnDone(r)
          THEN fnRet' = Value(r.v) /\ fnPc' = "returned"
          ELSE UNCHANGED <<fnRet, fnPc>>
    /\ UNCHANGED <<fnName, fnOp>>
    /\ PoolUntouched /\ UNCHANGED wakerVars

\* The caller takes the value; the call's frame is gone.
fn_resume ==
    /\ fnPc = "returned"
    /\ fnPc' = "idle"
    /\ fnName' = "none"
    /\ fnOp' = <<>>
    /\ fnCalls' = 0
    /\ fnRet' = NoValue
    /\ PoolUntouched /\ UNCHANGED wakerVars

----------------------------------------------------------------------------
\* waker.rs: a value W: SimpleWaker owned by the caller, the WakerRef that
\* waker_ref builds on a reference to it, and clones of that handle.  The
\* operations may come from different threads; each is one atomic access of
\* the flag or touches only the handle it is given.
WakerKinds == {"AlwaysWake", "SingleWake"}
NoHandle == [data |-> "null", vtable |-> "none"]
Clones == 1..MaxClones
WakerStep(name, h) ==
    /\ variant = "waker" /\ wkind # "none"
    /\ wop' = [name |-> name, h |-> h]
    /\ PoolUntouched /\ UNCHANGED libVars

\* waker_ref(&value): RawWaker::new(ptr, waker_vtable::<W>()) in a
\* ManuallyDrop, handed out as an unowned WakerRef.
waker_ref(kind) ==
    /\ variant = "waker" /\ wkind = "none"
    /\ wkind' = kind
    /\ handles' = [handles EXCEPT ![0] = [data |-> "value", vtable |-> kind]]
    /\ wop' = [name |-> "waker_ref", h |-> 0]
    /\ UNCHANGED <<woken, wfreed, wbatch, rret, rbatch>>
    /\ PoolUntouched /\ UNCHANGED libVars

\* What SimpleWaker::wake does to the flag of the value it is called on.
WakeFlag(kind, flag) == IF kind = "SingleWake" THEN TRUE ELSE flag
CountWake(n) == IF n < MaxWakes THEN n + 1 ELSE n

\* What dropping a value of the type frees: neither AlwaysWake {} nor
\* SingleWake { woken: AtomicBool } implements Drop or owns an allocation.
Owns(kind) == {}

\* Mutant: the handle is taken to own the value it points to.
DropRawOwning(kind) == {"value"}

\* drop_raw / the tail of wake_raw: `core::ptr::read` makes a bitwise copy
\* of the value and `drop(data)` drops that copy.
DropRaw(kind) == Owns(kind)

\* Waker::clone through copy_ref_raw: same data pointer, vtable of the type.
clone_handle(h, c) ==
    /\ WakerStep("clone", c)
    /\ handles[h] # NoHandle /\ handles[c] = NoHandle /\ c \in Clones
    /\ handles' = [handles EXCEPT ![c] = [data |-> handles[h].data, vtable |-> handles[h].vtable]]
    /\ UNCHANGED <<wkind, woken, wfreed, wbatch, rret, rbatch>>

\* Dropping a handle: a clone runs drop_raw; the WakerRef holds its Waker
\* in a ManuallyDrop and runs nothing.
drop_handle(h) ==
    /\ WakerStep("drop", h)
    /\ handles[h] # NoHandle
    /\ handles' = [handles EXCEPT ![h] = NoHandle]
    /\ wfreed' = IF h \in Clones THEN wfreed \cup DropRaw(handles[h].vtable) ELSE wfreed
    /\ UNCHANGED <<wkind, woken, wbatch, rret, rbatch>>

\* Waker::wake_by_ref through wake_by_ref_raw: wake() on the value itself.
wake_by_ref(h) ==
    /\ WakerStep("wake_by_ref", h)
    /\ handles[h] # NoHandle
    /\ woken' = WakeFlag(handles[h].vtable, woken)
    /\ wbatch' = CountWake(wbatch)
    /\ UNCHANGED <<wkind, wfreed, handles, rret, rbatch>>

\* Waker::wake(self) of a clone through wake_raw: wake() is called on a
\* bitwise copy of the value, which is then dropped; the flag of the value
\* itself is not written.  The handle is consumed.
wake_consume(h) ==
    /\ WakerStep("wake", h)
    /\ h \in Clones /\ handles[h] # NoHandle
    /\ handles' = [handles EXCEPT ![h] = NoHandle]
    /\ wfreed' = wfreed \cup DropRaw(handles[h].vtable)
    /\ UNCHANGED <<wkind, woken, wbatch, rret, rbatch>>

\* SimpleWaker::wake on the value: SingleWake stores true, AlwaysWake does nothing.
wake ==
    /\ WakerStep("wake_value", 0)
    /\ woken' = WakeFlag(wkind, woken)
    /\ wbatch' = CountWake(wbatch)
    /\ UNCHANGED <<wkind, wfreed, handles, rret, rbatch>>

\* Mutant: the flag is read and left set.
ReadResetKeeps(flag) == flag

\* SingleWake::read_reset: fetch_and(false) leaves the flag cleared.
ReadResetFlag(flag) == flag /\ FALSE

\* SingleWake::read_reset: `self.woken.fetch_and(false, Relaxed)`.
read_reset ==
    /\ WakerStep("read_reset", 0)
    /\ wkind = "SingleWake"
    /\ rret' = woken
    /\ woken' = ReadResetFlag(woken)
    /\ rbatch' = wbatch
    /\ wbatch' = 0
    /\ UNCHANGED <<wkind, wfreed, handles>>

----------------------------------------------------------------------------
\* The futures the host spawns: with concurrent spawners, those of the tests.
Spawnable == IF concurrent THEN TestFutures ELSE Futures

BusyNext ==
    \/ \E f \in Spawnable : spawn(f)
    \/ \E s \in Spawners : spawner(s)
    \/ \E s, s2 \in Spawners : SpawnerClone(s, s2)
    \/ DropPool
    \/ run
    \/ try_run_one
    \/ poll_though
    \/ poll_once
    \/ poll_once_pop
    \/ poll_once_push
    \/ run_match
    \/ poll_though_len
    \/ poll_though_pop
    \/ poll_though_push
    \/ try_run_one_match
    \/ \E s \in Spawners, f \in Spawnable : spawn_upgrade(s, f)
    \/ \E s \in Spawners : spawn_push(s)
    \/ \E s \in Spawners : spawn_return(s)
    \/ \E s \in Spawners : spawn_resume(s)

OldNext ==
    \/ \E f \in OldFutures : old_spawn(f)
    \/ old_try_run_one
    \/ old_poll_once
    \/ old_run_until_stalled
    \/ old_run

Next == BusyNext \/ OldNext \/ resume

Spec == Init /\ [][Next]_vars

\* The bounded pool with its spawners on other threads: their steps
\* interleave freely with the steps of the owner's calls.
InitConc == new /\ cap <= ConcCap /\ concurrent = TRUE /\ ITER = 0 /\ ti = 0

NextConc == BusyNext \/ resume

SpecConc == InitConc /\ [][NextConc]_vars

\* Between two calls of the owner the order of the queue is noted, to be
\* compared with what the poll_once calls that follow poll.
observe ==
    /\ variant = "busy" /\ pc = "idle" /\ alive /\ Running
    /\ queue # <<>>
    /\ Len(rrlog) = Len(rrq)
    /\ rrq' = queue
    /\ rrlog' = <<>>
    /\ UNCHANGED <<concurrent, ITER, variant, libVars, wakerVars, ti, oldVars, cap, alive, queue, task,
                   nspawned, repolled>>
    /\ UNCHANGED ownerVars
    /\ UNCHANGED spawnerVars

\* The bounded pool driven by poll_once and run, with spawner threads
\* pushing at any moment.
InitRR == new /\ concurrent = TRUE /\ ITER = 0 /\ ti = 0

NextRR ==
    \/ \E f \in Spawnable : spawn(f)
    \/ \E s \in Spawners : spawner(s)
    \/ poll_once
    \/ run
    \/ poll_once_pop
    \/ poll_once_push
    \/ run_match
    \/ resume
    \/ \E s \in Spawners, f \in Spawnable : spawn_upgrade(s, f)
    \/ \E s \in Spawners : spawn_push(s)
    \/ \E s \in Spawners : spawn_return(s)
    \/ \E s \in Spawners : spawn_resume(s)
    \/ observe

SpecRR == InitRR /\ [][NextRR]_vars

\* run() of the bounded pool on the owner thread alone.  The thread inside
\* run() keeps running, so the steps of its loop are taken again and again.
RunStep == poll_once_pop \/ poll_once_push \/ run_match

NextRun ==
    \/ \E f \in Futures : spawn(f)
    \/ run
    \/ poll_once_pop
    \/ poll_once_push
    \/ run_match
    \/ resume

InitRun == new /\ concurrent = FALSE /\ ITER = 0 /\ ti = 0

SpecRun == InitRun /\ [][NextRun]_vars /\ WF_vars(RunStep)

\* lib.rs used on its own: no pool is built.  The thread inside block_fn
\* keeps running, so its loop is taken again and again.
InitFn == Fresh /\ variant = "lib" /\ cap = 0 /\ concurrent = FALSE /\ ITER = 0 /\ ti = 0

NextFn ==
    \/ \E o \in Ops : poll_fn(o)
    \/ \E o \in Ops : block_fn(o)
    \/ block_fn_loop
    \/ fn_resume

SpecFn == InitFn /\ [][NextFn]_vars /\ WF_vars(block_fn_loop)

\* waker.rs used on its own, its operations in any order.
InitWaker == Fresh /\ variant = "waker" /\ cap = 0 /\ concurrent = FALSE /\ ITER = 0 /\ ti = 0

NextWaker ==
    \/ \E kind \in WakerKinds : waker_ref(kind)
    \/ \E h \in 0..MaxClones, c \in Clones : clone_handle(h, c)
    \/ \E h \in 0..MaxClones : drop_handle(h)
    \/ \E h \in 0..MaxClones : wake_by_ref(h)
    \/ \E h \in Clones : wake_consume(h)
    \/ wake
    \/ read_reset

SpecWaker == InitWaker /\ [][NextWaker]_vars

----------------------------------------------------------------------------
\* The test try_run_one_executes_one_ready as the host program, on either
\* pool: ITER times (pending, lazy, pending) is spawned, then try_run_one is
\* called ITER + 1 times.

\* The future the test spawns when n futures have been spawned already.
PatternFuture(n) == IF n % 3 = 1 THEN LazyFuture(1) ELSE PendingFuture

InitTest ==
    /\ Fresh
    /\ concurrent = FALSE
    /\ ITER \in 1..MaxIter
    /\ ti = 0
    /\ \/ variant = "busy" /\ cap \in {3 * ITER, 3 * ITER + 1}
       \/ variant = "old" /\ cap = 0

test_spawn ==
    /\ nspawned < 3 * ITER
    /\ spawn(PatternFuture(nspawned))

test_old_spawn ==
    /\ nspawned < 3 * ITER
    /\ old_spawn(PatternFuture(nspawned))

test_try_run_one ==
    /\ nspawned = 3 * ITER /\ ti <= ITER
    /\ try_run_one

test_old_try_run_one ==
    /\ nspawned = 3 * ITER /\ ti <= ITER
    /\ old_try_run_one

TestNext ==
    \/ test_spawn
    \/ test_old_spawn
    \/ test_try_run_one
    \/ test_old_try_run_one
    \/ resume
    \/ poll_though_len
    \/ poll_though_pop
    \/ poll_though_push
    \/ try_run_one_match

SpecTest == InitTest /\ [][TestNext]_vars

----------------------------------------------------------------------------
\* Vocabulary of the properties.

ToSet(sq) == {sq[k] : k \in 1..Len(sq)}
Done(t) == task[t].kind = "Lazy" /\ task[t].left = 0
Returned(o) == pc = "returned" /\ op = o
Busy == variant = "busy"
\* poll_once / poll_though has just returned, to run / try_run_one or to the caller.
PollOnceReturned == Busy /\ (pc = "run_match" \/ Returned("poll_once"))
PollThoughReturned == Busy /\ (pc = "tro_match" \/ Returned("poll_though"))
\* Every task the public call started from completes on its first poll.
AllImmediate == \A k \in 1..Len(runq0) : task[runq0[k]].kind = "Lazy" /\ task[runq0[k]].need = 1

(* C1: when run() returns on a pool that held N tasks which each complete on
   their first poll, it returns exactly N results (one per task), every task
   has been polled exactly once (it completed on its single poll and was
   never polled after completion), and the queue is empty. *)
C1_RunReturnsNResults ==
    (Busy /\ Returned("run") /\ AllImmediate) =>
        /\ Len(results) = Len(runq0)
        /\ ToSet(results) = ToSet(runq0)
        /\ \A k \in 1..Len(runq0) : Done(runq0[k])
        /\ ~repolled
        /\ queue = <<>>

C1_Witness ==
    /\ Busy /\ Returned("run") /\ AllImmediate
    /\ Len(runq0) >= 2
    /\ Len(results) = Len(runq0)

(* C2: a poll_once() call on an empty queue reports empty and polls nothing;
   otherwise it polls exactly the front task, once, and either that task
   suspended, is re-pushed at the tail behind the other tasks in their old
   order and suspended is reported, or it completed, its result is returned
   and the queue is the old one without its front. *)
C2_PollOnceContract ==
    PollOnceReturned =>
        IF q0 = <<>>
        THEN ret = ReadyNone /\ polled = <<>> /\ queue = <<>>
        ELSE /\ polled = <<Head(q0)>>
             /\ \/ /\ ret = PollPending
                   /\ ~Done(Head(q0))
                   /\ queue = Append(Tail(q0), Head(q0))
                \/ /\ ret = ReadySome(Head(q0))
                   /\ Done(Head(q0))
                   /\ queue = Tail(q0)

C2_Witness ==
    /\ PollOnceReturned
    /\ Len(q0) >= 2
    /\ ret = PollPending
    /\ queue = Append(Tail(q0), Head(q0))

(* C3: a poll_though() call polls at most L tasks, L being the queue length
   it read at its start, and the tasks it polls are the first ones of the
   queue in FIFO order; it returns the result of the first task it finds
   completed and polls nothing after it, returns suspended when all L tasks
   suspended (the queue is then as it was), and returns empty only when L
   was 0. *)
C3_PollThoughBounded ==
    /\ pc \in {"pt_pop", "pt_push"} => (len = Len(q0) /\ i < len /\ Len(polled) <= len)
    /\ PollThoughReturned =>
        LET n == Len(polled) IN
        /\ len = Len(q0)
        /\ n <= len
        /\ polled = SubSeq(q0, 1, n)
        /\ \A k \in 1..(n - 1) : ~Done(polled[k])
        /\ \/ /\ ret = ReadyNone
              /\ len = 0
           \/ /\ ret = PollPending
              /\ len > 0 /\ n = len
              /\ ~Done(polled[n])
              /\ queue = q0
           \/ /\ n > 0
              /\ ret = ReadySome(polled[n])
              /\ Done(polled[n])
              /\ queue = SubSeq(q0, n + 1, len) \o SubSeq(q0, 1, n - 1)

C3_Witness ==
    /\ PollThoughReturned
    /\ Len(q0) >= 2
    /\ \A k \in 1..Len(q0) : task[q0[k]].kind = "Pending"
    /\ ret = PollPending
    /\ Len(polled) = Len(q0)

(* C4: poll_once() and poll_though() report empty exactly when the queue was
   empty when the call began: an empty pool is never reported as suspended,
   and a pool holding only suspended tasks is reported as suspended, never
   as empty. *)
C4_EmptyIffReadyNone ==
    (PollOnceReturned \/ PollThoughReturned) =>
        /\ (q0 = <<>>) <=> (ret = ReadyNone)
        /\ (q0 # <<>> /\ \A k \in 1..Len(q0) : ~Done(q0[k])) => ret = PollPending

C4_Witness ==
    /\ Busy /\ Returned("poll_though")
    /\ q0 = <<>>
    /\ ret = ReadyNone

(* C5: try_run_one() surfaces at most one completion per call.  In both
   pools the scan's empty outcome and its all-suspended outcome come out as
   the same not-ready result, so an empty pool reports not-ready; a completed
   outcome comes out as completed, and then exactly one task, the completed
   one, has left the pool, while a not-ready call leaves the pool's content
   as it was. *)
C5_TryRunOne ==
    Returned("try_run_one") =>
        /\ Len(completed) <= 1
        /\ Busy =>
            /\ ret.k \in {"ReadyNone", "Pending"} => out = PollPending
            /\ ret.k = "ReadySome" => out = PollReady(ret.v)
            /\ runq0 = <<>> => out = PollPending
            /\ out.k = "Ready" =>
                /\ completed = <<out.v>>
                /\ Len(queue) = Len(runq0) - 1
                /\ ToSet(queue) = ToSet(runq0) \ {out.v}
            /\ out = PollPending =>
                /\ completed = <<>>
                /\ Len(queue) = Len(runq0)
                /\ ToSet(queue) = ToSet(runq0)
        /\ variant = "old" =>
            /\ ret.k \in {"ReadyNone", "Pending"} => ~oldOut
            /\ ret.k = "ReadySome" => oldOut
            /\ runq0 = <<>> => ~oldOut
            /\ oldOut => (completed = <<ret.v>> /\ fuAll = Without(runq0, ret.v)
                          /\ Len(fuAll) = Len(runq0) - 1)
            /\ ~oldOut => (completed = <<>> /\ fuAll = runq0)

C5_Witness ==
    /\ Busy /\ Returned("try_run_one")
    /\ runq0 = <<>>
    /\ ret = ReadyNone
    /\ out = PollPending

\* The test's counter `cnt`: the lazy tasks that have run.
Cnt == Cardinality({t \in TaskIds : Done(t)})
\* The permanently suspended tasks of the test's pattern.
Suspended == {t \in 1..(3 * ITER) : task[t].kind = "Pending"}
\* The tasks the pool holds.
Held == IF Busy THEN ToSet(queue) ELSE ToSet(fuAll)
TryRunOneReady == IF Busy THEN out.k = "Ready" ELSE oldOut

(* C6: in the test try_run_one_executes_one_ready, for every ITER = N, on
   either pool (the bounded one with capacity >= 3N): the i-th of the first
   N calls of try_run_one() reports completed and takes the count of
   completed tasks from i - 1 to i, the 2N suspended tasks all stay in the
   pool, and call N + 1 reports not-ready. *)
C6_TryRunOneDrainsReady ==
    Returned("try_run_one") =>
        /\ ti <= ITER
        /\ Cardinality(Suspended) = 2 * ITER
        /\ Suspended \subseteq Held
        /\ Cardinality(Held) = 3 * ITER - Cnt
        /\ IF ti < ITER
           THEN /\ TryRunOneReady
                /\ Len(completed) = 1
                /\ Cnt = ti + 1
           ELSE /\ ~TryRunOneReady
                /\ completed = <<>>
                /\ Cnt = ITER

C6_Witness ==
    /\ Busy /\ Returned("try_run_one")
    /\ ITER >= 2
    /\ ti = ITER
    /\ out = PollPending
    /\ Cnt = ITER
    /\ Len(queue) = 2 * ITER

(* C7: in the bounded-queue pool, under every interleaving of the owner's
   calls with the spawner threads, the queue never holds more than cap
   tasks; a spawn of the owner or of a spawner of the live pool that found
   fewer than cap tasks queued has pushed its task, and one that found
   exactly cap tasks queued is fatal and leaves the queue as it was. *)
C7_SpawnWithinCapacity ==
    /\ Len(queue) <= cap
    /\ (op = "spawn" /\ pc = "returned") =>
        /\ Len(q0) < cap
        /\ Len(queue) > Len(q0)
        /\ SubSeq(queue, 1, Len(q0)) = q0
        /\ queue[Len(q0) + 1] \notin ToSet(q0)
    /\ (op = "spawn" /\ pc = "panicked") =>
        /\ Len(q0) = cap
        /\ queue = q0
    /\ \A s \in Spawners :
        /\ spc[s] = "release" => slen[s] < cap
        /\ spc[s] = "panicked" => (slen[s] = cap /\ sret[s] = "Queue full")

C7_Witness ==
    /\ concurrent
    /\ cap >= 2
    /\ op = "spawn" /\ pc = "panicked"
    /\ nspawned = cap
    /\ queue = [k \in 1..cap |-> k]

(* C8: under every interleaving of the owner with the spawner threads, a
   spawn through any spawner or clone that begins after the bounded-queue
   pool has been dropped never gets past the upgrade: it is never about to
   push, never fatal and never successful, and what it returns is the
   shutdown error, however many tasks the queue held at the drop. *)
C8_ShutdownAfterDrop ==
    \A s \in late :
        /\ spc[s] = "returned"
        /\ sret[s] = "Shutdown"

\* A spawn that began after the drop has reported shutdown; the queue was
\* full when the pool was dropped.
C8_Witness ==
    /\ ~alive
    /\ op = "drop"
    /\ Len(q0) = cap
    /\ \E s \in late : s # FirstSpawner /\ spc[s] = "returned" /\ sret[s] = "Shutdown"

(* C9: run() on a pool that holds no task, in either pool, goes from the
   first look at the pool straight to its return: it polls nothing, nothing
   completes, it returns no result and leaves the pool empty; this holds
   as well when the previous call was already a run() of the empty pool. *)
C9_RunOnDrainedPool ==
    (op = "run" /\ runq0 = <<>>) =>
        /\ pc \in {"po_pop", "run_match", "returned"}
        /\ pc = "run_match" => ret = ReadyNone
        /\ results = <<>>
        /\ polled = <<>>
        /\ completed = <<>>
        /\ queue = <<>>
        /\ fuAll = <<>> /\ fuReady = <<>>
        /\ future = 0

C9_Witness ==
    /\ Busy /\ Returned("run")
    /\ again
    /\ runq0 = <<>>
    /\ nspawned >= 1
    /\ results = <<>>

(* C10: when run() of the bounded-queue pool returns, the results are the
   tasks in the order in which they reported completion, and they are
   exactly the tasks the pool held when run() was called, each once. *)
C10_CompletionOrder ==
    (Busy /\ Returned("run")) =>
        /\ results = completed
        /\ Len(results) = Len(runq0)
        /\ ToSet(results) = ToSet(runq0)
        /\ queue = <<>>

C10_Witness ==
    /\ Busy /\ Returned("run")
    /\ Len(results) >= 3
    /\ \E j, k \in 1..Len(results) : j < k /\ results[j] > results[k]
    /\ \E j, k \in 1..Len(runq0) : j < k /\ runq0[j] > runq0[k]

\* Some invocation of `f` reports completion.
Completes(o) == \E n \in 1..Len(o) : o[n].k = "Ready"
\* The first such invocation.
FirstReady(o) == CHOOSE n \in 1..Len(o) : o[n].k = "Ready" /\ \A m \in 1..(n - 1) : o[m].k # "Ready"

C11_Returned ==
    /\ (fnPc = "returned" /\ fnName = "poll_fn") =>
        /\ fnCalls = 1
        /\ fnRet = fnOp[1]
    /\ (fnPc = "returned" /\ fnName = "block_fn") =>
        /\ Completes(fnOp)
        /\ fnCalls = FirstReady(fnOp)
        /\ fnRet = Value(fnOp[fnCalls].v)
    /\ (fnName = "block_fn" /\ ~Completes(fnOp)) => fnPc = "loop"
    /\ (fnName = "block_fn" /\ Completes(fnOp)) => fnCalls <= FirstReady(fnOp)

(* C11: poll_fn(f) invokes f once and returns what it reported, suspended or
   completed.  block_fn(f) returns only the value of the first invocation of
   f that reports completion, having invoked f exactly up to that invocation
   and never after it; it never returns when no invocation completes, and
   it does return when one does. *)
C11_BlockFnPollFn ==
    /\ []C11_Returned
    /\ (fnName = "block_fn" /\ Completes(fnOp)) ~> (fnName = "block_fn" /\ fnPc = "returned")

C11_Witness ==
    /\ fnName = "block_fn" /\ fnPc = "returned"
    /\ fnCalls = 3
    /\ fnOp[1] = PollPending /\ fnOp[2] = PollPending
    /\ fnRet = Value(2)

\* The admitted tasks that have not reported completion.
Live == {t \in 1..nspawned : ~Done(t)}
Count(sq, t) == Cardinality({k \in 1..Len(sq) : sq[k] = t})
\* A poll operation of the owner has ended and the next has not begun.
BetweenPolls == op \in {"run", "try_run_one", "poll_though", "poll_once"} /\ pc = "returned"

(* C12: under every interleaving of the owner with the spawner threads,
   while the bounded-queue pool exists every admitted task that has not
   reported completion is in the queue exactly once or is the one task the
   owner is polling, never both, the queue holds nothing else, and when a
   poll operation has ended the queue is shorter than when it began by at
   most the tasks that reported completion in it. *)
C12_TaskInOnePlace ==
    (Busy /\ alive) =>
        /\ \A t \in Live : Count(queue, t) + (IF future = t THEN 1 ELSE 0) = 1
        /\ ToSet(queue) \subseteq Live
        /\ future # 0 => future \in Live
        /\ BetweenPolls => Len(queue) >= Len(runq0) - Len(completed)

\* The owner's re-push found the queue full: the task it held is gone.
C12_Witness ==
    /\ alive /\ concurrent
    /\ pc = "panicked" /\ op \in {"poll_once", "run"}
    /\ \E t \in Live : t \notin ToSet(queue)

\* Spawner thread s has a spawn that returned Ok(()) for a task pushed while
\* the pool existed, and the pool still exists.
Admitted(s) == spc[s] = "returned" /\ sret[s] = "Ok" /\ spool[s] /\ alive
Index(sq, t) == CHOOSE k \in 1..Len(sq) : sq[k] = t

\* The task is where the owner's polls find it, unless they already have.
C13_InQueue ==
    \A s \in Spawners : Admitted(s) =>
        \/ stask[s] \in ToSet(queue)
        \/ stask[s] \in ToSet(polled)
        \/ Done(stask[s])

\* The owner's next read of the queue: poll_though's `len`, poll_once's pop.
C13_NextRead ==
    \A s \in Spawners : (Admitted(s) /\ stask[s] \in ToSet(queue)) =>
        /\ (pc = "pt_len" /\ pc' # "pt_len") =>
            /\ len' >= Index(queue, stask[s])
            /\ ret' # ReadyNone
        /\ (pc = "po_pop" /\ pc' # "po_pop") => ret' # ReadyNone

(* C13: under every interleaving, once a spawner's spawn on the existing
   bounded-queue pool has returned success its task is in the queue (or has
   by then been popped by the owner), and a poll_though that next reads the
   length counts it and a poll_once or poll_though that next reads the queue
   does not report empty. *)
C13_SpawnedTaskVisible == []C13_InQueue /\ [][C13_NextRead]_vars

C13_Witness ==
    /\ concurrent
    /\ pc = "pt_pop" /\ polled = <<>>
    /\ len = 2
    /\ \E s \in Spawners : Admitted(s) /\ queue[2] = stask[s]

(* C14: whatever handles built from waker_ref are cloned and dropped, in any
   number and order, no handle operation deallocates or invalidates the
   decorated value; for the no-op waker no operation changes any state of
   the value; every live handle, clone or not, has the value's address as
   data pointer and the dispatch table of the value's type; and a
   wake-by-reference leaves its handle alive and, on the single-flag waker,
   the flag of the value set. *)
C14_HandlesDoNotOwn ==
    /\ wfreed = {}
    /\ wkind = "AlwaysWake" => ~woken
    /\ \A h \in 0..MaxClones : handles[h] # NoHandle =>
        /\ handles[h].data = "value"
        /\ handles[h].vtable = wkind
    /\ wop.name = "wake_by_ref" =>
        /\ handles[wop.h] # NoHandle
        /\ wkind = "SingleWake" => woken

\* Both clones have been made and dropped again, a clone of a clone among
\* them, and the WakerRef itself is gone.
C14_Witness ==
    /\ wkind = "SingleWake"
    /\ wop = [name |-> "drop", h |-> 2]
    /\ handles[0] = NoHandle /\ handles[1] # NoHandle /\ handles[2] = NoHandle
    /\ woken

(* C15: for the single-flag waker under any order of wake() and read_reset()
   calls: the flag is set exactly when some wake() happened since the last
   read_reset(), and a read_reset() returns true exactly when some wake()
   happened since the read_reset() before it, however many they were. *)
C15_NoLostWake ==
    wkind = "SingleWake" =>
        /\ woken <=> (wbatch > 0)
        /\ wop.name = "read_reset" =>
            /\ rret <=> (rbatch > 0)
            /\ ~woken /\ wbatch = 0

\* A read_reset that found a batch of several wakes.
C15_Witness ==
    /\ wkind = "SingleWake"
    /\ wop.name = "read_reset"
    /\ rbatch = MaxWakes
    /\ rret

\* Task t reports completion after finitely many polls.
Completable(t) == task[t].kind = "Lazy"
InRun == Busy /\ op = "run"

C16_ReturnsOnlyWhenAllComplete ==
    (InRun /\ pc = "returned") =>
        /\ \A t \in ToSet(runq0) : Completable(t) /\ Done(t)
        /\ queue = <<>>

(* C16: run() of the bounded-queue pool, on its own thread: it returns only
   when every task it started with has completed and the queue is empty, so
   never when one of them stays suspended for ever; when every task is
   completable it does return; and in either case every completable task is
   polled until it completes and then is no longer in the queue. *)
C16_RunTerminatesIffCompletable ==
    /\ []C16_ReturnsOnlyWhenAllComplete
    /\ (InRun /\ \A t \in ToSet(runq0) : Completable(t)) ~> (InRun /\ pc = "returned")
    /\ \A t \in 1..MaxTasks :
        (InRun /\ t \in ToSet(runq0) /\ Completable(t)) ~> (InRun /\ Done(t) /\ t \notin ToSet(queue))

\* run() spinning on a suspended task after the completable ones ahead of
\* and behind it have completed.
C16_Witness ==
    /\ InRun /\ pc = "po_pop"
    /\ Len(runq0) = 3
    /\ Len(completed) = 2
    /\ Len(queue) = 1 /\ ~Completable(queue[1])
    /\ \E t \in ToSet(runq0) : task[t].need = 2 /\ Done(t)

(* C17: under every interleaving of the owner with the spawner threads,
   the fatal queue-full condition arises on the owner's side only inside
   spawn, never at the re-push of poll_once or poll_though, and on a
   spawner's side only when its push found cap tasks queued. *)
C17_OverflowOnlyInSpawn ==
    /\ pc = "panicked" => op = "spawn"
    /\ \A s \in Spawners : spc[s] = "panicked" => slen[s] = cap

\* A spawner's task has taken the slot of the task the owner is about to
\* re-push.
C17_Witness ==
    /\ concurrent /\ alive
    /\ pc \in {"po_push", "pt_push"}
    /\ future # 0
    /\ IsFull
    /\ \E s \in Spawners : spc[s] \in {"release", "returned"} /\ queue[Len(queue)] = stask[s]

(* C18: under every interleaving of the owner's drop of the bounded-queue
   pool with a spawn on another thread, a spawn that has pushed its task
   and returns success pushed it while the pool existed. *)
C18_OkOnlyIfPoolExists ==
    \A s \in Spawners :
        (spc[s] = "release" \/ (spc[s] = "returned" /\ sret[s] = "Ok")) => spool[s]

\* A spawn upgraded its handle before the drop and pushed after it.
C18_Witness ==
    /\ concurrent /\ ~alive
    /\ \E s \in Spawners :
        /\ s \notin late
        /\ spc[s] = "release"
        /\ ~spool[s]
        /\ stask[s] \in ToSet(queue)

InSweep == Busy /\ op \in {"poll_though", "try_run_one"} /\ pc # "pt_len"

(* C19: under every interleaving of the owner with the spawner threads, the
   tasks one poll_though() call has polled are, in order, the first tasks of
   the queue as it was when the call read its length, each polled once;
   so neither a task pushed by a spawner during the sweep nor a task the
   sweep re-pushed is polled in that call. *)
C19_SweepPollsPrefixOnce ==
    InSweep =>
        /\ Len(polled) <= len
        /\ len = Len(q0)
        /\ polled = SubSeq(q0, 1, Len(polled))
        /\ Cardinality(ToSet(polled)) = Len(polled)
        /\ \A s \in Spawners : (stask[s] # 0 /\ stask[s] \notin ToSet(q0)) => stask[s] \notin ToSet(polled)

\* A sweep has ended with a task pushed during it at the front, unpolled,
\* and the task it polled and re-pushed behind it.
C19_Witness ==
    /\ concurrent /\ InSweep
    /\ pc \in {"tro_match", "returned"}
    /\ ret = PollPending
    /\ Len(polled) = 1 /\ Len(queue) = 2
    /\ queue[2] = polled[1]
    /\ \E s \in Spawners : queue[1] = stask[s] /\ stask[s] \notin ToSet(q0)

(* C20: under every interleaving of poll_once calls (made directly or by
   run) with the spawner threads: from any moment between two calls on, the
   (k+1)-th poll_once call polls the task that was then at position k of
   the queue, whether the tasks before it suspended or completed and
   whatever was pushed meanwhile; the queue never holds more than cap tasks,
   so each is polled within cap calls, and a task that has just been
   re-pushed, being last, is polled again only after all the others. *)
C20_RoundRobin ==
    /\ Len(rrlog) <= Len(rrq)
    /\ Len(rrq) <= cap
    /\ rrlog = SubSeq(rrq, 1, Len(rrlog))

\* Two noted tasks have been polled in turn; the first suspended and was
\* re-pushed, and a task spawned from another thread meanwhile is queued.
C20_Witness ==
    /\ concurrent
    /\ Len(rrq) = 2 /\ rrlog = rrq
    /\ rrq[1] \in ToSet(queue)
    /\ Done(rrq[2])
    /\ \E s \in Spawners : stask[s] \in ToSet(queue) /\ stask[s] \notin ToSet(rrq)

====
